---- MODULE Spec2Model ----
(***************************************************************************)
(* Parallel tempering (replica exchange) workflows of dwave-hybrid:        *)
(*   examples/parallel-tempering.py      betas stored in the states        *)
(*                                       (replica-bound), random pair swap *)
(*   examples/parallel-tempering-alt.py  betas bound to the branches       *)
(*                                       (slot-bound), sweep-down swap     *)
(* Indices are 0-based as in the source: a States list of n replicas is a  *)
(* function over 0..n-1.  Inverse temperatures are integers in tenths,     *)
(* energies are integers, so beta_diff * energy_diff is in tenths.         *)
(***************************************************************************)
EXTENDS Integers, FiniteSets, Sequences, TLC

VARIABLES
    wf,             \* which script runs: "pt" (parallel-tempering.py) or "alt"
    beta_hot,       \* beta_hot, beta_cold = neal.default_beta_range(bqm)
    beta_cold,
    cancel,         \* the cancellation signal of the run (hybrid.Loop)
    n_replicas,     \* n_replicas
    n_iterations,   \* n_iterations
    betas,          \* betas = np.geomspace(beta_hot, beta_cold, n_replicas)
    replicas,       \* the States flowing through the workflow
    pc,             \* position of the workflow: update, swap, merge, done, failed
    iterno,         \* rounds completed by the outer hybrid.Loop
    task,           \* hybrid.Map / hybrid.Branches: state of each replica's future
    out,            \* hybrid.Map / hybrid.Branches: result of each replica's future
    used_beta,      \* beta_range handed to the sampler by each replica's last call
    inner,          \* pt: iterations done by the inner hybrid.Loop(SwapReplicas())
    sweep_i,        \* alt: loop variable i of SwapReplicasSweepDown.next
    ev,             \* locals of the last swap_pair call (i, j, p, w, s_i, s_j)
    swap_calls,     \* number of swap_pair evaluations so far
    round_pairs,    \* the indices i evaluated in the current round, in order
    n_merge,        \* number of MergeSamples outputs produced
    solution        \* workflow.run(replicas).result()

vars == <<wf, beta_hot, beta_cold, cancel, n_replicas, n_iterations, betas, replicas, pc, iterno, task, out,
          used_beta, inner, sweep_i, ev, swap_calls, round_pairs, n_merge, solution>>

----------------------------------------------------------------------------
(* Bounds of the model *)

MaxReplicas == 3

MaxIterations == 2

\* Best energies a sampler call can return (neal is an external capability).
Energies == {-5, -3}

\* Outputs of neal.default_beta_range(bqm), in tenths: (beta_hot, beta_cold).
BetaRanges == {<<1, 64>>}

----------------------------------------------------------------------------
(* Floating point: math.exp and random.uniform on a fixed-point grid *)

\* 1.0 on the grid of weights and draws.
ExpOne == 10000

\* exp(-0.1) on the grid.
ExpTenth == 9048

\* exp(-1) on the grid.
ExpUnit == 3679

\* math.exp(x) is 0.0 for x < -745.13 (below the smallest subnormal double).
ExpUnderflow == 7452

\* Steps after which the fixed-point product is below one grid unit.
ExpSteps == 100

Min(a, b) == IF a <= b THEN a ELSE b

Max(a, b) == IF a >= b THEN a ELSE b

RECURSIVE ExpFix(_)
\* exp(-t/10) on the grid, by repeated multiplication with exp(-1) and exp(-0.1).
ExpFix(t) ==
    IF t = 0 THEN ExpOne
    ELSE IF t >= 10 THEN (ExpFix(t - 10) * ExpUnit) \div ExpOne
    ELSE (ExpFix(t - 1) * ExpTenth) \div ExpOne

\* math.exp(x / 10) on the grid: 1.0 at 0, positive and below 1.0 for negative
\* x down to the underflow threshold, exactly 0.0 below it, above 1.0 for x > 0.
exp(x) ==
    IF x = 0 THEN ExpOne
    ELSE IF x < 0
         THEN IF x <= -ExpUnderflow THEN 0
              ELSE Max(1, ExpFix(Min(-x, ExpSteps)))
         ELSE (ExpOne * ExpOne) \div Max(1, ExpFix(Min(x, ExpSteps)))

\* random.uniform(0, 1): a float in [0, 1); representative draws on the grid.
Draws == {0, 1, ExpFix(14) - 1, ExpFix(14), ExpOne - 1}

----------------------------------------------------------------------------
(* The ladder: np.geomspace on the integer grid *)

\* The integer m-th root of v, searched between lo and hi.
IRoot(v, m, lo, hi) == CHOOSE r \in lo..hi : r^m <= v /\ (r = hi \/ v < (r + 1)^m)

\* Faulty variant: the ladder stops short of beta_cold (endpoint=False).
geomspace_open(start, stop, num) ==
    [k \in 0..(num - 1) |->
        IF k = 0 THEN start
        ELSE IRoot(start^(num - k) * stop^k, num, Min(start, stop), Max(start, stop))]

\* np.geomspace(start, stop, num): num values, geometrically spaced; numpy sets
\* result[0] = start when num > 0 and result[-1] = stop when num > 1.
geomspace(start, stop, num) ==
    [k \in 0..(num - 1) |->
        IF k = 0 THEN start
        ELSE IF k = num - 1 THEN stop
        ELSE IRoot(start^(num - 1 - k) * stop^k, num - 1,
                   Min(start, stop), Max(start, stop))]

----------------------------------------------------------------------------
(* States *)

\* A sample set holds one sample (State.from_problem makes one random sample and
\* the sampler returns one read per initial state).  It is identified by the
\* round and the position that made it, and exposes samples.first.energy.
SampleSet(round, id, energy) == [round |-> round, id |-> id, energy |-> energy]

\* pt: replicas = States(*[state.updated(beta=b) for b in betas])
Replicas_pt(bs, e0) ==
    [k \in DOMAIN bs |-> [problem |-> "bqm", samples |-> SampleSet(0, k, e0), beta |-> bs[k]]]

\* alt: replicas = States(*[state.updated() for _ in range(n_replicas)])
Replicas_alt(n, e0) ==
    [k \in 0..(n - 1) |-> [problem |-> "bqm", samples |-> SampleSet(0, k, e0)]]

len(states) == Cardinality(DOMAIN states)

NoEv == [done |-> FALSE]

Init ==
    /\ wf \in {"pt", "alt"}
    /\ n_replicas \in 1..MaxReplicas
    /\ n_iterations \in 1..MaxIterations
    /\ \E r \in BetaRanges : beta_hot = r[1] /\ beta_cold = r[2]
    /\ cancel = FALSE
    /\ betas = geomspace(beta_hot, beta_cold, n_replicas)
    /\ \E e0 \in Energies :
          replicas = IF wf = "pt" THEN Replicas_pt(betas, e0)
                     ELSE Replicas_alt(n_replicas, e0)
    /\ pc = "update"
    /\ iterno = 0
    /\ task = [k \in 0..(n_replicas - 1) |-> "pending"]
    /\ out = replicas
    /\ used_beta = [k \in 0..(n_replicas - 1) |-> 0]
    /\ inner = 0
    /\ sweep_i = 0
    /\ ev = NoEv
    /\ swap_calls = 0
    /\ round_pairs = <<>>
    /\ n_merge = 0
    /\ solution = <<>>

----------------------------------------------------------------------------
(* Propagation: FixedTemperatureSampler under hybrid.Map / hybrid.Branches *)

\* pt: beta_range=(state.beta, state.beta)
FixedTemperatureSampler_beta_pt(state) == state.beta

\* Faulty variant: every branch built with the last beta of the ladder.
FixedTemperatureSampler_beta_alt_last(bs, k) == bs[Cardinality(DOMAIN bs) - 1]

\* alt: branch k is FixedTemperatureSampler(betas[k]); beta_range=(self.beta, self.beta)
FixedTemperatureSampler_beta_alt(bs, k) == bs[k]

\* Faulty variant: the call also replaces the problem of the state it returns.
FixedTemperatureSampler_next_problem(state, new_samples) ==
    [state EXCEPT !.samples = new_samples, !.problem = "relabelled"]

\* return state.updated(samples=new_samples)
FixedTemperatureSampler_next(state, new_samples) == [state EXCEPT !.samples = new_samples]

\* Faulty variant: the step returns as soon as one future has completed.
MapComplete_any(t) == \E k \in DOMAIN t : t[k] \in {"done", "failed"}

\* Map / Branches return once every future has completed.
MapComplete(t) == \A k \in DOMAIN t : t[k] \in {"done", "failed"}

\* A failed future re-raises from the Map / Branches step.
MapFailed(t) == \E k \in DOMAIN t : t[k] = "failed"

\* The executor starts the sampler call of replica k.
MapStart(k) ==
    /\ task[k] = "pending"
    /\ task' = [task EXCEPT ![k] = "running"]
    /\ UNCHANGED <<wf, beta_hot, beta_cold, cancel, n_replicas, n_iterations, betas, replicas, pc, iterno, out,
                   used_beta, inner, sweep_i, ev, swap_calls, round_pairs, n_merge,
                   solution>>

\* The sampler call of replica k returns new samples.
MapFinish(k) ==
    /\ task[k] = "running"
    /\ \E e \in Energies :
          out' = [out EXCEPT ![k] =
                    FixedTemperatureSampler_next(replicas[k], SampleSet(iterno + 1, k, e))]
    /\ used_beta' = [used_beta EXCEPT ![k] =
                        IF wf = "pt" THEN FixedTemperatureSampler_beta_pt(replicas[k])
                        ELSE FixedTemperatureSampler_beta_alt(betas, k)]
    /\ task' = [task EXCEPT ![k] = "done"]
    /\ UNCHANGED <<wf, beta_hot, beta_cold, cancel, n_replicas, n_iterations, betas, replicas, pc, iterno,
                   inner, sweep_i, ev, swap_calls, round_pairs, n_merge, solution>>

\* Faulty variant: a sampler call that raised is submitted again.
MapFail_retry(k) ==
    /\ task[k] = "running"
    /\ task' = [task EXCEPT ![k] = "pending"]
    /\ UNCHANGED <<wf, beta_hot, beta_cold, cancel, n_replicas, n_iterations, betas, replicas, pc, iterno, out,
                   used_beta, inner, sweep_i, ev, swap_calls, round_pairs, n_merge,
                   solution>>

\* The sampler call of replica k raises.
MapFail(k) ==
    /\ task[k] = "running"
    /\ task' = [task EXCEPT ![k] = "failed"]
    /\ UNCHANGED <<wf, beta_hot, beta_cold, cancel, n_replicas, n_iterations, betas, replicas, pc, iterno, out,
                   used_beta, inner, sweep_i, ev, swap_calls, round_pairs, n_merge,
                   solution>>

\* Map / Branches return the new States to the swap step, or re-raise.
MapReturn ==
    /\ pc = "update"
    /\ MapComplete(task)
    /\ IF MapFailed(task)
       THEN /\ pc' = "failed"
            /\ UNCHANGED replicas
       ELSE /\ pc' = "swap"
            /\ replicas' = out
    /\ inner' = 0
    /\ sweep_i' = 0
    /\ round_pairs' = <<>>
    /\ UNCHANGED <<wf, beta_hot, beta_cold, cancel, n_replicas, n_iterations, betas, iterno, task, out, used_beta,
                   ev, swap_calls, n_merge, solution>>

----------------------------------------------------------------------------
(* Swap: SwapReplicas (pt) and SwapReplicasSweepDown (alt) *)

\* Faulty variant: energy_diff taken as E_j - E_i.
SwapReplicas_w_reversed(states, i, j) ==
    LET beta_diff == states[i].beta - states[j].beta
        energy_diff == states[j].samples.energy - states[i].samples.energy
    IN  exp(Min(0, beta_diff * energy_diff))

\* pt: w = math.exp(min(0, beta_diff * energy_diff)) from the betas in the states
SwapReplicas_w(states, i, j) ==
    LET beta_diff == states[i].beta - states[j].beta
        energy_diff == states[i].samples.energy - states[j].samples.energy
    IN  exp(Min(0, beta_diff * energy_diff))

\* Faulty variant: the exchange done in two assignments, losing s_i.samples.
SwapReplicas_swap_pair_lossy(states, i, j, p) ==
    IF SwapReplicas_w(states, i, j) > p
    THEN [states EXCEPT ![i].samples = states[j].samples]
    ELSE states

\* Faulty variant: the whole states are exchanged, betas included.
SwapReplicas_swap_pair_states(states, i, j, p) ==
    IF SwapReplicas_w(states, i, j) > p
    THEN [states EXCEPT ![i] = states[j], ![j] = states[i]]
    ELSE states

\* pt: swap_pair(states, i, j) with the draw p = random.uniform(0, 1)
SwapReplicas_swap_pair(states, i, j, p) ==
    LET s_i == states[i]
        s_j == states[j]
    IN  IF SwapReplicas_w(states, i, j) > p
        THEN [states EXCEPT ![i].samples = s_j.samples, ![j].samples = s_i.samples]
        ELSE states

\* Faulty variant: beta_diff taken as betas[j] - betas[i].
SwapReplicasSweepDown_w_reversed(self_betas, states, i, j) ==
    LET beta_diff == self_betas[j] - self_betas[i]
        energy_diff == states[i].samples.energy - states[j].samples.energy
    IN  exp(Min(0, beta_diff * energy_diff))

\* Faulty variant: the product handed to exp without the clamp at 0.
SwapReplicasSweepDown_w_unclamped(self_betas, states, i, j) ==
    LET beta_diff == self_betas[i] - self_betas[j]
        energy_diff == states[i].samples.energy - states[j].samples.energy
    IN  exp(beta_diff * energy_diff)

\* alt: w = math.exp(min(0, beta_diff * energy_diff)) from self.betas
SwapReplicasSweepDown_w(self_betas, states, i, j) ==
    LET beta_diff == self_betas[i] - self_betas[j]
        energy_diff == states[i].samples.energy - states[j].samples.energy
    IN  exp(Min(0, beta_diff * energy_diff))

\* Faulty variant: the exchange done in two assignments, losing states[i].
SwapReplicasSweepDown_swap_pair_lossy(self_betas, states, i, j, p) ==
    IF SwapReplicasSweepDown_w(self_betas, states, i, j) > p
    THEN [states EXCEPT ![i] = states[j], ![j] = states[j]]
    ELSE states

\* alt: swap_pair(states, i, j) with the draw p = random.uniform(0, 1)
SwapReplicasSweepDown_swap_pair(self_betas, states, i, j, p) ==
    IF SwapReplicasSweepDown_w(self_betas, states, i, j) > p
    THEN [states EXCEPT ![i] = states[j], ![j] = states[i]]
    ELSE states

\* Faulty variant: n_random_swaps = n_replicas
n_random_swaps_n == n_replicas

\* n_random_swaps = n_replicas - 1
n_random_swaps == n_replicas - 1

\* swap = hybrid.Loop(SwapReplicas(), max_iter=n_random_swaps)
InnerMaxIter == n_random_swaps

\* Faulty variant: the outer Loop bounded by n_random_swaps.
OuterMaxIter_swaps == n_replicas - 1

\* workflow = hybrid.Loop(update | swap, max_iter=n_iterations)
OuterMaxIter == n_iterations

\* hybrid.Loop runs its body while fewer than max_iter iterations are done.
LoopContinues(it, max_iter) == it < max_iter

\* Faulty variant: j = i
SwapReplicas_j_same(i) == i

\* pt: j = i + 1
SwapReplicas_j(i) == i + 1

\* Faulty variant: range(len(states) - 2)
SwapReplicasSweepDown_range_short(states) == 0..(Cardinality(DOMAIN states) - 3)

\* alt: range(len(states) - 1)
SwapReplicasSweepDown_range(states) == 0..(len(states) - 2)

\* Faulty variant: the sweep runs from the cold end to the hot end.
SwapReplicasSweepDown_i_reversed(states, step) == len(states) - 2 - step

\* alt: the value of i in iteration number step of `for i in range(len(states) - 1)`
SwapReplicasSweepDown_i(states, step) == step

\* random.choice(range(m)): the values it can return (none: IndexError)
RandomChoiceRange(m) == 0..(m - 1)

\* The locals of one swap_pair call.
Ev(i, j, p, w, beta_i, beta_j, states) ==
    [done |-> TRUE, i |-> i, j |-> j, p |-> p, w |-> w, beta_i |-> beta_i,
     beta_j |-> beta_j, s_i |-> states[i].samples, s_j |-> states[j].samples]

\* pt: one iteration of hybrid.Loop(SwapReplicas(), max_iter=n_random_swaps)
SwapReplicas_next ==
    /\ pc = "swap"
    /\ wf = "pt"
    /\ LoopContinues(inner, InnerMaxIter)
    /\ IF RandomChoiceRange(len(replicas) - 1) = {}
       THEN /\ pc' = "failed"
            /\ UNCHANGED <<replicas, ev, swap_calls, round_pairs>>
       ELSE \E i \in RandomChoiceRange(len(replicas) - 1), p \in Draws :
               LET j == SwapReplicas_j(i)
               IN  /\ replicas' = SwapReplicas_swap_pair(replicas, i, j, p)
                   /\ ev' = Ev(i, j, p, SwapReplicas_w(replicas, i, j),
                               replicas[i].beta, replicas[j].beta, replicas)
                   /\ swap_calls' = swap_calls + 1
                   /\ round_pairs' = Append(round_pairs, i)
                   /\ pc' = pc
    /\ inner' = inner + 1
    /\ UNCHANGED <<wf, beta_hot, beta_cold, cancel, n_replicas, n_iterations, betas, iterno, task, out, used_beta,
                   sweep_i, n_merge, solution>>

\* alt: one iteration of the loop `for i in range(len(states) - 1)` of next
SwapReplicasSweepDown_next ==
    /\ pc = "swap"
    /\ wf = "alt"
    /\ sweep_i \in SwapReplicasSweepDown_range(replicas)
    /\ \E p \in Draws :
          LET i == SwapReplicasSweepDown_i(replicas, sweep_i)
          IN  /\ replicas' = SwapReplicasSweepDown_swap_pair(betas, replicas, i, i + 1, p)
              /\ ev' = Ev(i, i + 1, p, SwapReplicasSweepDown_w(betas, replicas, i, i + 1),
                          betas[i], betas[i + 1], replicas)
              /\ round_pairs' = Append(round_pairs, i)
    /\ swap_calls' = swap_calls + 1
    /\ sweep_i' = sweep_i + 1
    /\ UNCHANGED <<wf, beta_hot, beta_cold, cancel, n_replicas, n_iterations, betas, pc, iterno, task, out,
                   used_beta, inner, n_merge, solution>>

\* The swap step has returned.
SwapFinished ==
    IF wf = "pt" THEN ~LoopContinues(inner, InnerMaxIter)
    ELSE sweep_i \notin SwapReplicasSweepDown_range(replicas)

\* Faulty variant: the Loop never looks at the cancellation signal.
LoopCancelled_never(signal) == FALSE

\* hybrid.Loop reads the cancellation signal between two rounds.
LoopCancelled(signal) == signal

\* The cancellation signal is raised while a round is running.
Cancel ==
    /\ pc \in {"update", "swap"}
    /\ cancel = FALSE
    /\ cancel' = TRUE
    /\ UNCHANGED <<wf, beta_hot, beta_cold, n_replicas, n_iterations, betas, replicas,
                   pc, iterno, task, out, used_beta, inner, sweep_i, ev, swap_calls,
                   round_pairs, n_merge, solution>>

\* The swap step returns; the outer Loop counts the round and repeats or ends.
LoopIteration ==
    /\ pc = "swap"
    /\ SwapFinished
    /\ iterno' = iterno + 1
    /\ IF LoopContinues(iterno + 1, OuterMaxIter) /\ ~LoopCancelled(cancel)
       THEN /\ pc' = "update"
            /\ task' = [k \in DOMAIN task |-> "pending"]
       ELSE /\ pc' = "merge"
            /\ UNCHANGED task
    /\ ev' = NoEv
    /\ UNCHANGED <<wf, beta_hot, beta_cold, cancel, n_replicas, n_iterations, betas, replicas, out, used_beta,
                   inner, sweep_i, swap_calls, round_pairs, n_merge, solution>>

----------------------------------------------------------------------------
(* Merge: hybrid.MergeSamples(aggregate=True) *)

SetMin(S) == CHOOSE x \in S : \A y \in S : x <= y

\* All sample sets merged into one; samples.first is a lowest-energy sample.
MergeSamples(states) ==
    LET all == {states[k].samples : k \in DOMAIN states}
    IN  [problem |-> "bqm",
         samples |-> [members |-> all, energy |-> SetMin({s.energy : s \in all})]]

\* solution = workflow.run(replicas).result(); merging zero replicas fails.
Merge ==
    /\ pc = "merge"
    /\ IF DOMAIN replicas = {}
       THEN /\ pc' = "failed"
            /\ UNCHANGED <<solution, n_merge>>
       ELSE /\ solution' = MergeSamples(replicas)
            /\ n_merge' = n_merge + 1
            /\ pc' = "done"
    /\ UNCHANGED <<wf, beta_hot, beta_cold, cancel, n_replicas, n_iterations, betas, replicas, iterno, task, out,
                   used_beta, inner, sweep_i, ev, swap_calls, round_pairs>>

----------------------------------------------------------------------------

Next ==
    \/ \E k \in DOMAIN task : MapStart(k)
    \/ \E k \in DOMAIN task : MapFinish(k)
    \/ \E k \in DOMAIN task : MapFail(k)
    \/ MapReturn
    \/ SwapReplicas_next
    \/ SwapReplicasSweepDown_next
    \/ LoopIteration
    \/ Merge

Spec == Init /\ [][Next]_vars

----------------------------------------------------------------------------
(* swap_pair alone, on arbitrary pairs of states *)

\* Inverse temperatures of the two states, in tenths (equal and inverted too).
PairBetas == {1, 8, 64}

\* Best energies of the two states.
PairEnergies == {-5, -3, 200}

InitPair ==
    /\ wf \in {"pt", "alt"}
    /\ n_replicas = 2
    /\ n_iterations = 1
    /\ betas \in [0..1 -> PairBetas]
    /\ beta_hot = betas[0]
    /\ beta_cold = betas[1]
    /\ cancel = FALSE
    /\ \E e \in [0..1 -> PairEnergies] :
          replicas = [k \in 0..1 |->
                        IF wf = "pt"
                        THEN [problem |-> "bqm", samples |-> SampleSet(1, k, e[k]),
                              beta |-> betas[k]]
                        ELSE [problem |-> "bqm", samples |-> SampleSet(1, k, e[k])]]
    /\ pc = "swap"
    /\ iterno = 0
    /\ task = [k \in 0..1 |-> "done"]
    /\ out = replicas
    /\ used_beta = betas
    /\ inner = 0
    /\ sweep_i = 0
    /\ ev = NoEv
    /\ swap_calls = 0
    /\ round_pairs = <<>>
    /\ n_merge = 0
    /\ solution = <<>>

NextPair ==
    \/ SwapReplicas_next
    \/ SwapReplicasSweepDown_next

SpecPair == InitPair /\ [][NextPair]_vars

----------------------------------------------------------------------------
(* The set-up of the ladder: the script from its parameters to the first   *)
(* round, on valid and on invalid parameters                               *)

\* (beta_hot, beta_cold): valid ranges, a range too narrow for the grid, an
\* inverted and an empty range, and ranges with a zero end.
LadderRanges == {<<1, 64>>, <<8, 9>>, <<64, 1>>, <<8, 8>>, <<0, 8>>, <<8, 0>>}

\* n_replicas
LadderSizes == (-1)..MaxReplicas

NoStates == [k \in {} |-> 0]

InitLadder ==
    /\ wf \in {"pt", "alt"}
    /\ \E r \in LadderRanges : beta_hot = r[1] /\ beta_cold = r[2]
    /\ cancel = FALSE
    /\ n_replicas \in LadderSizes
    /\ n_iterations = 1
    /\ betas = NoStates
    /\ replicas = NoStates
    /\ pc = "setup"
    /\ iterno = 0
    /\ task = NoStates
    /\ out = NoStates
    /\ used_beta = NoStates
    /\ inner = 0
    /\ sweep_i = 0
    /\ ev = NoEv
    /\ swap_calls = 0
    /\ round_pairs = <<>>
    /\ n_merge = 0
    /\ solution = <<>>

\* np.geomspace raises ValueError on a negative num and on a zero start or stop;
\* every other input gives an array.
geomspace_raises(start, stop, num) == num < 0 \/ start = 0 \/ stop = 0

\* betas = np.geomspace(beta_hot, beta_cold, n_replicas) and the replicas made
\* from it; the workflow is run on whatever the call returns.
BuildLadder ==
    /\ pc = "setup"
    /\ IF geomspace_raises(beta_hot, beta_cold, n_replicas)
       THEN /\ pc' = "failed"
            /\ UNCHANGED <<betas, replicas, task, out, used_beta>>
       ELSE /\ betas' = geomspace(beta_hot, beta_cold, n_replicas)
            /\ \E e0 \in Energies :
                  replicas' = IF wf = "pt" THEN Replicas_pt(betas', e0)
                              ELSE Replicas_alt(n_replicas, e0)
            /\ task' = [k \in 0..(n_replicas - 1) |-> "pending"]
            /\ out' = replicas'
            /\ used_beta' = [k \in 0..(n_replicas - 1) |-> 0]
            /\ pc' = "update"
    /\ UNCHANGED <<wf, beta_hot, beta_cold, cancel, n_replicas, n_iterations, iterno,
                   inner, sweep_i, ev, swap_calls, round_pairs, n_merge, solution>>

NextLadder ==
    \/ BuildLadder
    \/ Next

SpecLadder == InitLadder /\ [][NextLadder]_vars

----------------------------------------------------------------------------
(* The run under a cancellation signal *)

InitCancel == Init /\ n_replicas < MaxReplicas

NextCancel ==
    \/ Cancel
    \/ Next

SpecCancel == InitCancel /\ [][NextCancel]_vars

----------------------------------------------------------------------------
(* Properties *)

\* The inverse temperature in force at position k.
PositionBeta(k) == IF wf = "pt" THEN replicas[k].beta ELSE betas[k]

\* The last swap_pair call exchanged the sample sets of its pair.
Exchanged ==
    /\ ev.done
    /\ replicas[ev.i].samples = ev.s_j
    /\ replicas[ev.j].samples = ev.s_i

\* The last swap_pair call left the sample sets of its pair in place.
NotExchanged ==
    /\ ev.done
    /\ replicas[ev.i].samples = ev.s_i
    /\ replicas[ev.j].samples = ev.s_j

AllDone == \A k \in DOMAIN task : task[k] = "done"

\* C1: in every round of both workflows, a swap evaluation happens only when
\* the propagation calls of all replicas of that round have completed, and the
\* energies it reads belong to the sample sets made by that round's calls.
C1_Barrier ==
    /\ pc = "swap" => AllDone
    /\ ev.done =>
          /\ AllDone
          /\ ev.s_i.round = iterno + 1
          /\ ev.s_j.round = iterno + 1
          /\ \A k \in DOMAIN replicas : replicas[k].samples.round = iterno + 1

C1_Witness ==
    /\ ev.done
    /\ n_replicas = 3
    /\ iterno = 1
    /\ wf = "alt"
    /\ ev.i = 1

\* C2: both swap_pair implementations exchange the sample sets of the pair
\* exactly when exp(min(0, (beta_a - beta_b) * (E_a - E_b))) > p: always when the
\* product is not negative (equal betas included), and exactly for the draws
\* below exp(product) when it is negative.
C2_Acceptance ==
    ev.done =>
        LET product == (PositionBeta(ev.i) - PositionBeta(ev.j))
                           * (ev.s_i.energy - ev.s_j.energy)
        IN  /\ Exchanged <=> exp(Min(0, product)) > ev.p
            /\ Exchanged \/ NotExchanged
            /\ ~(Exchanged /\ NotExchanged)
            /\ product >= 0 => Exchanged
            /\ product < 0 => (Exchanged <=> ev.p < exp(product))

C2_Witness ==
    /\ Exchanged
    /\ PositionBeta(ev.i) = PositionBeta(ev.j)
    /\ ev.s_i.energy < ev.s_j.energy
    /\ ev.p = ExpOne - 1
    /\ wf = "pt"

\* The ladder the run was started with.
IsInitialLadder(bs) == \E r \in BetaRanges : bs = geomspace(r[1], r[2], n_replicas)

\* What holds of the slot-bound workflow in every state.
C3_SlotInv ==
    wf = "alt" =>
        /\ IsInitialLadder(betas)
        /\ \A k \in DOMAIN task : task[k] = "done" => used_beta[k] = betas[k]
        /\ ev.done => /\ ev.beta_i = betas[ev.i]
                      /\ ev.beta_j = betas[ev.j]
                      /\ ev.j = ev.i + 1

\* What a swap step of the sweep changes.
C3_SlotStep ==
    (wf = "alt" /\ pc = "swap" /\ pc' = "swap" /\ swap_calls' = swap_calls + 1) =>
        LET i == sweep_i
        IN  /\ betas' = betas
            /\ \A k \in DOMAIN replicas : k \notin {i, i + 1} => replicas'[k] = replicas[k]
            /\ \/ replicas' = replicas
               \/ /\ replicas'[i] = replicas[i + 1]
                  /\ replicas'[i + 1] = replicas[i]

\* C3: in parallel-tempering-alt.py the inverse temperature stays with the
\* position: in every round the replica at position k is propagated at betas[k]
\* and swap-evaluated with betas[k], betas never changes, and a swap step only
\* exchanges the states at positions i and i+1.
C3_SlotBound == []C3_SlotInv /\ [][C3_SlotStep]_vars

C3_Witness ==
    /\ wf = "alt"
    /\ n_replicas = 3
    /\ iterno = 1
    /\ Exchanged
    /\ ev.i = 1
    /\ used_beta = betas

\* What holds of the replica-bound workflow in every state.
C4_ReplicaInv ==
    wf = "pt" =>
        /\ IsInitialLadder(betas)
        /\ \A k \in DOMAIN replicas :
              /\ replicas[k].beta = betas[k]
              /\ replicas[k].problem = "bqm"
              /\ out[k].beta = betas[k]

\* What a swap evaluation of SwapReplicas changes.
C4_ReplicaStep ==
    (wf = "pt" /\ pc = "swap" /\ pc' = "swap" /\ swap_calls' = swap_calls + 1) =>
        LET i == ev'.i
            j == ev'.j
        IN  /\ j = i + 1
            /\ betas' = betas
            /\ \A k \in DOMAIN replicas :
                  /\ replicas'[k].beta = replicas[k].beta
                  /\ replicas'[k].problem = replicas[k].problem
                  /\ k \notin {i, j} => replicas'[k].samples = replicas[k].samples
            /\ IF ev'.w > ev'.p
               THEN /\ replicas'[i].samples = replicas[j].samples
                    /\ replicas'[j].samples = replicas[i].samples
               ELSE replicas' = replicas

\* C4: in parallel-tempering.py a swap evaluation of pair (i, i+1) leaves every
\* state's beta and problem and every other replica's samples unchanged; when
\* accepted it exchanges the samples of i and i+1, when rejected it changes
\* nothing; so the betas by position are the initial ladder in every state.
C4_ReplicaBound == []C4_ReplicaInv /\ [][C4_ReplicaStep]_vars

C4_Witness ==
    /\ wf = "pt"
    /\ n_replicas = 3
    /\ iterno = 1
    /\ Exchanged
    /\ ev.i = 1
    /\ ev.w < ExpOne

\* The indices 0, 1, ..., m-1 in order.
Ascending(m) == [k \in 1..m |-> k - 1]

\* A swap_pair call is made by this step.
SwapEvaluated == swap_calls' = swap_calls + 1

\* What holds of the sweep in every state.
C5_SweepInv ==
    wf = "alt" =>
        /\ round_pairs = Ascending(Len(round_pairs))
        /\ pc = "swap" => Len(round_pairs) = sweep_i /\ sweep_i <= n_replicas - 1
        /\ swap_calls = iterno * (n_replicas - 1) + (IF pc = "swap" THEN sweep_i ELSE 0)
        /\ (pc \in {"merge", "done"} \/ (pc = "update" /\ iterno > 0)) =>
              Len(round_pairs) = n_replicas - 1
        /\ pc \in {"merge", "done"} => swap_calls = n_iterations * (n_replicas - 1)

\* What one evaluation of the sweep reads and records.
C5_SweepStep ==
    (wf = "alt" /\ SwapEvaluated) =>
        /\ ev'.i = sweep_i
        /\ ev'.j = sweep_i + 1
        /\ ev'.s_i = replicas[sweep_i].samples
        /\ ev'.s_j = replicas[sweep_i + 1].samples
        /\ sweep_i' = sweep_i + 1

\* C5: in parallel-tempering-alt.py the swap step of each round evaluates the
\* pairs (0,1), (1,2), ..., (N-2,N-1) once each, in increasing order, each
\* evaluation reading the states left by the one before; a round makes N-1
\* evaluations and a run of n_iterations rounds n_iterations * (N-1).
C5_SweepDown == []C5_SweepInv /\ [][C5_SweepStep]_vars

C5_Witness ==
    /\ wf = "alt"
    /\ pc = "done"
    /\ n_iterations = 2
    /\ n_replicas = 3
    /\ swap_calls = 4
    /\ round_pairs = <<0, 1>>

\* What holds of the random pair swaps in every state.
C6_RandomInv ==
    wf = "pt" =>
        /\ ev.done => ev.i \in 0..(n_replicas - 2) /\ ev.j = ev.i + 1
        /\ \A m \in 1..Len(round_pairs) : round_pairs[m] \in 0..(n_replicas - 2)
        /\ pc = "swap" => Len(round_pairs) = inner /\ inner <= n_replicas - 1
        /\ swap_calls = iterno * (n_replicas - 1) + (IF pc = "swap" THEN inner ELSE 0)
        /\ (pc \in {"merge", "done"} \/ (pc = "update" /\ iterno > 0)) =>
              Len(round_pairs) = n_replicas - 1

\* What one inner iteration reads and changes.
C6_RandomStep ==
    (wf = "pt" /\ SwapEvaluated) =>
        /\ ev'.s_i = replicas[ev'.i].samples
        /\ ev'.s_j = replicas[ev'.j].samples
        /\ round_pairs' = Append(round_pairs, ev'.i)
        /\ \A k \in DOMAIN replicas : k \notin {ev'.i, ev'.i + 1} => replicas'[k] = replicas[k]
        /\ inner' = inner + 1

\* C6: in parallel-tempering.py each inner iteration of the swap step picks one
\* i in 0..N-2 and evaluates exactly the pair (i, i+1) on the states left by the
\* iteration before; a round makes n_random_swaps = N-1 inner iterations.
C6_RandomPair == []C6_RandomInv /\ [][C6_RandomStep]_vars

C6_Witness ==
    /\ wf = "pt"
    /\ pc = "swap"
    /\ inner = 2
    /\ n_replicas = 3
    /\ round_pairs = <<1, 1>>
    /\ Exchanged

\* C7: with n_replicas = 1 the swap step of every round makes no swap evaluation
\* and raises nothing in both workflows: the state after it is the state the
\* propagation returned, the rounds go on and the merged result is produced.
C7_SingleReplica ==
    n_replicas = 1 =>
        /\ swap_calls = 0
        /\ ev = NoEv
        /\ pc = "failed" => MapFailed(task)
        /\ pc = "swap" => SwapFinished /\ ENABLED LoopIteration
        /\ pc \in {"swap", "merge", "done"} => replicas = out
        /\ pc = "merge" => ENABLED Merge
        /\ pc = "done" => /\ iterno = n_iterations
                          /\ solution.samples.members = {out[0].samples}

C7_Witness ==
    /\ n_replicas = 1
    /\ wf = "pt"
    /\ pc = "done"
    /\ n_iterations = 2

\* Steps of one round that are still to be made by the propagation calls.
TaskSteps == LET left(k) == IF task[k] = "pending" THEN 2
                            ELSE IF task[k] = "running" THEN 1 ELSE 0
                 sum[m \in 0..n_replicas] == IF m = 0 THEN 0 ELSE sum[m - 1] + left(m - 1)
             IN  sum[n_replicas]

\* Steps of one whole round: two per propagation call, the return of the
\* propagation phase, the N-1 swap evaluations and the end of the round.
RoundSteps == 2 * n_replicas + 1 + (n_replicas - 1) + 1

\* Steps the run can still make before it ends.
StepsLeft ==
    IF pc \in {"done", "failed"} THEN 0
    ELSE IF pc = "merge" THEN 1
    ELSE 1 + (n_iterations - iterno - 1) * RoundSteps
           + (IF pc = "update"
              THEN TaskSteps + 1 + (n_replicas - 1) + 1
              ELSE (n_replicas - 1 - (IF wf = "pt" THEN inner ELSE sweep_i)) + 1)

\* What holds of the rounds in every state.
C8_RoundsInv ==
    /\ iterno <= n_iterations
    /\ pc \in {"update", "swap"} => iterno < n_iterations
    /\ pc \in {"merge", "done"} =>
          /\ iterno = n_iterations
          /\ \A k \in DOMAIN replicas : replicas[k].samples.round = n_iterations
    /\ pc = "done" => n_merge = 1 /\ solution # <<>>
    /\ pc # "done" => n_merge = 0 /\ solution = <<>>
    /\ pc = "failed" => MapFailed(task)
    /\ pc = "update" =>
          /\ ev = NoEv
          /\ \A k \in DOMAIN replicas :
                /\ replicas[k].samples.round = iterno
                /\ task[k] = "done" => out[k].samples.round = iterno + 1
    /\ pc = "swap" =>
          /\ AllDone
          /\ \A k \in DOMAIN replicas : replicas[k].samples.round = iterno + 1
    /\ \A k \in DOMAIN task : task[k] = "running" => pc = "update"
    /\ pc \notin {"done", "failed"} => ENABLED Next
    /\ pc \in {"done", "failed"} => ~ENABLED Next

\* How the workflow moves from phase to phase.
C8_RoundsStep ==
    /\ pc' # pc => <<pc, pc'>> \in {<<"update", "swap">>, <<"update", "failed">>,
                                    <<"swap", "update">>, <<"swap", "merge">>,
                                    <<"merge", "done">>}
    /\ iterno' = IF pc = "swap" /\ pc' \in {"update", "merge"} THEN iterno + 1 ELSE iterno
    /\ (pc = "swap" /\ pc' = "update") => \A k \in DOMAIN task : task'[k] = "pending"
    /\ (pc = "update" /\ pc' = "swap") => replicas' = out
    /\ StepsLeft' < StepsLeft
    /\ StepsLeft' >= 0

\* C8: a run with n_iterations = K makes exactly K rounds, each one propagation
\* phase followed by one swap phase, one after the other, round k+1 taking the
\* states left by round k; it then produces the merged output exactly once and
\* ends: every step brings the end nearer, a step is possible until the run
\* has ended, and it ends as failed only when a sampler call has raised.
C8_Rounds == []C8_RoundsInv /\ [][C8_RoundsStep]_vars

C8_Witness ==
    /\ pc = "done"
    /\ wf = "pt"
    /\ n_iterations = 2
    /\ n_replicas = 3
    /\ iterno = 2
    /\ n_merge = 1
    /\ StepsLeft = 0

\* C9: the best energy of the merged output is the minimum, over the replicas,
\* of the best energies of the sample sets returned by the propagation phase of
\* the last round, whatever the swap decisions of the last round were.
C9_MergedBest ==
    pc = "done" =>
        /\ \A k \in DOMAIN out : out[k].samples.round = n_iterations
        /\ solution.samples.energy = SetMin({out[k].samples.energy : k \in DOMAIN out})
        /\ solution.samples.members = {out[k].samples : k \in DOMAIN out}

C9_Witness ==
    /\ pc = "done"
    /\ wf = "alt"
    /\ n_replicas = 3
    /\ replicas # out
    /\ out[0].samples.energy = -5
    /\ out[1].samples.energy = -3
    /\ replicas[0].samples.energy = -3
    /\ solution.samples.energy = -5

\* What holds of a failed propagation in every state.
C10_FailInv ==
    /\ MapFailed(task) => pc \in {"update", "failed"}
    /\ pc = "failed" =>
          /\ MapFailed(task)
          /\ n_merge = 0
          /\ solution = <<>>
          /\ ev = NoEv
          /\ round_pairs = <<>>
          /\ swap_calls = iterno * (n_replicas - 1)
          /\ iterno < n_iterations
          /\ \A k \in DOMAIN replicas : replicas[k].samples.round = iterno
          /\ ~ENABLED Next

\* A call that raised stays failed; a running call returns or raises.
C10_FailStep ==
    \A k \in DOMAIN task :
        /\ task[k] = "running" => task'[k] \in {"running", "done", "failed"}
        /\ task[k] = "failed" => task'[k] = "failed"

\* C10: when the propagation call of a replica fails, it is not called again and
\* the run fails: no swap evaluation of that round is made, no later round
\* starts, the new samples of the other replicas are dropped and nothing is
\* merged.
C10_PropagationFailure == []C10_FailInv /\ [][C10_FailStep]_vars

C10_Witness ==
    /\ pc = "failed"
    /\ iterno = 1
    /\ n_replicas = 3
    /\ task[1] = "failed"
    /\ task[0] = "done"
    /\ out[0].samples.round = 2
    /\ replicas[0].samples.round = 1

\* The propagation call of replica k returns in this step.
Returned(k) == task[k] = "running" /\ task'[k] = "done"

\* What a returning propagation call reads and writes.
C11_PropagationStep ==
    \A k \in DOMAIN task :
        Returned(k) =>
            /\ replicas' = replicas
            /\ betas' = betas
            /\ \A m \in DOMAIN out : m # k => out'[m] = out[m] /\ task'[m] = task[m]
            /\ \A m \in DOMAIN out : m # k => used_beta'[m] = used_beta[m]
            /\ used_beta'[k] = PositionBeta(k)
            /\ out'[k].problem = replicas[k].problem
            /\ out'[k].samples.id = k
            /\ out'[k] = [replicas[k] EXCEPT !.samples = out'[k].samples]

\* What the propagation phase has produced so far, whatever the order of the calls.
C11_PropagationInv ==
    pc = "update" =>
        \A k \in DOMAIN task :
            /\ replicas[k].problem = "bqm"
            /\ task[k] = "done" =>
                  out[k] = [replicas[k] EXCEPT
                               !.samples = SampleSet(iterno + 1, k, out[k].samples.energy)]
            /\ task[k] \in {"pending", "running"} => out[k].samples.round <= iterno

\* C11: the propagation call of replica k reads the problem and replica k's own
\* samples and beta and replaces only replica k's samples; the other replicas,
\* replica k's beta, the ladder and the problem stay as they are, so the states
\* at the barrier do not depend on the order in which the calls return.
C11_Propagation == []C11_PropagationInv /\ [][C11_PropagationStep]_vars

C11_Witness ==
    /\ pc = "update"
    /\ iterno = 1
    /\ n_replicas = 3
    /\ wf = "pt"
    /\ task = [k \in 0..2 |-> IF k = 1 THEN "running" ELSE "done"]
    /\ out[2].samples.energy # replicas[2].samples.energy
    /\ replicas[0].samples.id # 0

\* The next swap evaluation of either workflow.
SwapEvaluation == (SwapReplicas_next \/ SwapReplicasSweepDown_next) /\ ev'.done

\* The next swap evaluation exchanges the pair / leaves the pair as it is.
AcceptedNext == SwapEvaluation /\ replicas' # replicas
RejectedNext == SwapEvaluation /\ replicas' = replicas

\* The next swap evaluation of the random-pair policy is on the pair (i, i + 1).
ChosenNext(i) == SwapReplicas_next /\ ev'.done /\ ev'.i = i

\* C12: a run is reproducible: the problem, the configuration and the replica
\* states reached so far (all of them held in the state; the scripts take no
\* seed and pass no generator to random.uniform and random.choice) determine
\* the next swap decision and the next index choice, so two runs that agree up
\* to a state cannot differ in the step that follows.
C12_Reproducible ==
    /\ ~(ENABLED AcceptedNext /\ ENABLED RejectedNext)
    /\ \A i1, i2 \in 0..(MaxReplicas - 1) :
           (ENABLED ChosenNext(i1) /\ ENABLED ChosenNext(i2)) => i1 = i2

\* Ladder parameters the specification calls invalid.
InvalidRange == n_replicas < 1 \/ beta_hot <= 0 \/ beta_hot >= beta_cold

\* C13: invalid ladder parameters (n < 1, betaHot <= 0 or betaHot >= betaCold)
\* are rejected before anything is scheduled: the run is at its set-up or has
\* failed, no replica is propagated and no swap is evaluated.
C13_Rejected ==
    InvalidRange =>
        /\ pc \in {"setup", "failed"}
        /\ \A k \in DOMAIN task : task[k] = "pending"
        /\ swap_calls = 0

\* A cancelled run that has ended returns the merge of the replicas its last
\* completed round left, and is never failed by the signal.
C14_CancelInv ==
    cancel =>
        /\ pc = "failed" => \E k \in DOMAIN task : task[k] = "failed"
        /\ pc \in {"merge", "done"} =>
              /\ iterno >= 1
              /\ AllDone
              /\ \A k \in DOMAIN replicas : replicas[k].samples.round = iterno
              /\ {replicas[k].samples : k \in DOMAIN replicas}
                     = {out[k].samples : k \in DOMAIN out}
        /\ pc = "done" => n_merge = 1 /\ solution = MergeSamples(replicas)
        /\ pc \notin {"done", "failed"} => ENABLED Next

\* The signal is looked at between two rounds only.
C14_CancelStep ==
    /\ (~cancel /\ cancel') =>
          /\ pc \in {"update", "swap"}
          /\ <<pc, iterno, replicas, task, out, inner, sweep_i, swap_calls, solution>>'
                 = <<pc, iterno, replicas, task, out, inner, sweep_i, swap_calls, solution>>
    /\ (cancel /\ iterno' # iterno) => pc' = "merge"
    /\ (pc # "merge" /\ pc' = "merge") =>
          /\ pc = "swap"
          /\ SwapFinished
          /\ Len(round_pairs) = n_replicas - 1
          /\ iterno' = iterno + 1
    /\ (cancel /\ pc' # pc) =>
          \/ pc = "update" /\ pc' = "swap" /\ AllDone
          \/ pc = "update" /\ pc' = "failed"
          \/ pc = "swap" /\ pc' = "merge"
          \/ pc = "merge" /\ pc' = "done"
    /\ (cancel' = cancel) => StepsLeft' < StepsLeft

\* C14: a cancellation signal raised during a round is honoured at the round
\* boundary only: the propagation and the swap phase of that round run to
\* completion, no further round starts, and the run ends by returning the
\* merge of the replicas left by the last completed round.
C14_Cancellation == []C14_CancelInv /\ [][C14_CancelStep]_vars

C14_Witness ==
    /\ pc = "done"
    /\ cancel
    /\ n_iterations = 2
    /\ iterno = 1
    /\ n_replicas = 2
    /\ replicas[0].samples.id = 1

\* Ladder parameters the specification calls valid.
ValidRange == n_replicas >= 1 /\ 0 < beta_hot /\ beta_hot < beta_cold

\* The ladder has been built.
LadderBuilt == pc \notin {"setup", "failed"} \/ DOMAIN betas # {}

\* The geometric step of the ladder is at least 2, so that neighbouring values
\* differ by more than the resolution of the grid.
Resolved == beta_cold >= beta_hot * 2^(n_replicas - 1)

\* The ladder as it stands after its construction, for valid parameters.
C15_LadderInv ==
    (ValidRange /\ LadderBuilt) =>
        /\ DOMAIN betas = 0..(n_replicas - 1)
        /\ betas[0] = beta_hot
        /\ n_replicas >= 2 => betas[n_replicas - 1] = beta_cold
        /\ n_replicas = 1 => betas[0] # beta_cold
        /\ Resolved =>
              /\ \A k \in DOMAIN betas : beta_hot <= betas[k] /\ betas[k] <= beta_cold
              /\ \A k \in DOMAIN betas : k > 0 => betas[k - 1] < betas[k]

Product == (ev.beta_i - ev.beta_j) * (ev.s_i.energy - ev.s_j.energy)

SampleSets(states) == {states[k].samples : k \in DOMAIN states}

\* C17: the swap phase of either workflow only permutes the sample sets: the
\* sample sets held by the replicas during and after the swap phase are those
\* the propagation phase returned, each held by exactly one replica (none lost,
\* none duplicated, none shared), and the number of replicas stays N.
C17_Permutation ==
    pc \in {"swap", "merge", "done"} =>
        /\ DOMAIN replicas = 0..(n_replicas - 1)
        /\ DOMAIN out = DOMAIN replicas
        /\ SampleSets(replicas) = SampleSets(out)
        /\ Cardinality(SampleSets(replicas)) = n_replicas
        /\ \A k, m \in DOMAIN replicas :
               replicas[k].samples.id = replicas[m].samples.id => k = m

C17_Witness ==
    /\ pc = "swap"
    /\ wf = "pt"
    /\ n_replicas = 3
    /\ swap_calls >= 2
    /\ Exchanged
    /\ \A k \in DOMAIN replicas : replicas[k].samples # out[k].samples

\* The sample sets at the positions before the last swap evaluation.
PreSamples(k) == IF k = ev.i THEN ev.s_i ELSE IF k = ev.j THEN ev.s_j
                 ELSE replicas[k].samples

\* The states before the last swap evaluation as each script holds them.
PreStates_pt ==
    [k \in DOMAIN replicas |->
        [problem |-> "bqm", samples |-> PreSamples(k), beta |-> PositionBeta(k)]]
PreStates_alt ==
    [k \in DOMAIN replicas |-> [problem |-> "bqm", samples |-> PreSamples(k)]]
PreBetas == [k \in DOMAIN replicas |-> PositionBeta(k)]

\* The assignment of (beta, sample set) to the positions in each script.
Assignment_pt(states) == [k \in DOMAIN states |-> <<states[k].beta, states[k].samples>>]
Assignment_alt(bs, states) == [k \in DOMAIN states |-> <<bs[k], states[k].samples>>]

\* C18: on the same assignment of (beta, sample set) to positions, the same
\* pair and the same draw, SwapReplicas.swap_pair and
\* SwapReplicasSweepDown.swap_pair compute the same weight, take the same
\* accept/reject decision and leave the same assignment of (beta, sample set)
\* to positions, which is the one the running script has reached.
C18_SwapPairsAgree ==
    ev.done =>
        LET w_pt == SwapReplicas_w(PreStates_pt, ev.i, ev.j)
            w_alt == SwapReplicasSweepDown_w(PreBetas, PreStates_alt, ev.i, ev.j)
            after_pt == Assignment_pt(
                SwapReplicas_swap_pair(PreStates_pt, ev.i, ev.j, ev.p))
            after_alt == Assignment_alt(PreBetas,
                SwapReplicasSweepDown_swap_pair(PreBetas, PreStates_alt, ev.i, ev.j, ev.p))
        IN  /\ w_pt = w_alt
            /\ ev.w = w_pt
            /\ (w_pt > ev.p) <=> (w_alt > ev.p)
            /\ after_pt = after_alt
            /\ after_pt = [k \in DOMAIN replicas |-> <<PositionBeta(k), replicas[k].samples>>]
            /\ Exchanged <=> after_alt # Assignment_alt(PreBetas, PreStates_alt)

C18_Witness ==
    /\ ev.done
    /\ wf = "alt"
    /\ Exchanged
    /\ 0 < ev.w
    /\ ev.w < ExpOne
    /\ ev.p > 0
    /\ PositionBeta(0) > PositionBeta(1)

\* C19: within one sweep-down of parallel-tempering-alt.py a sample set that
\* starts the sweep at position k (the position whose propagation call made
\* it) is, during and after the sweep, at a position >= k - 1 for every
\* sequence of draws: it moves at most one position toward the hot end, while
\* it may be carried toward the cold end as far as position N-1.
C19_SweepDrift ==
    (wf = "alt" /\ pc \in {"swap", "merge", "done"}) =>
        /\ \A k \in DOMAIN out : out[k].samples.id = k
        /\ \A pos \in DOMAIN replicas : pos >= replicas[pos].samples.id - 1
        /\ \A pos \in DOMAIN replicas :
               pos = replicas[pos].samples.id - 1 => sweep_i > pos

C19_Witness ==
    /\ wf = "alt"
    /\ pc = "swap"
    /\ n_replicas = 3
    /\ SwapFinished
    /\ replicas[2].samples.id = 0
    /\ replicas[0].samples.id = 1
    /\ replicas[1].samples.id = 2

====
